---- MODULE Spec2Model ----
(***************************************************************************)
(* Model of custom_components/loxone/miniserver.py: the MiniServer session *)
(* object (setup / start / stop), its identity accessors and the bridge    *)
(* between the host event bus and the LoxWs transport.                     *)
(***************************************************************************)
EXTENDS Integers, Sequences, FiniteSets, TLC

VARIABLES
  config_entry,  \* self.config_entry: the data host and the unique id
  lox_config,    \* self.lox_config: None or the LoxApp with its json
  api,           \* self.api: NoApi (None) or the id of a LoxWs transport
  callback,      \* self.callback
  transports,    \* the LoxWs objects constructed so far, by id
  setupPc,       \* where the async_setup coroutine is suspended
  request_code,  \* async_setup's local request_code
  setupLog,      \* the collaborator calls of the current async_setup, in order
  sent,          \* the send calls made on transports, in order
  bus,           \* the events fired on the host bus, in order
  delivered,     \* the inbound messages handed to callbacks, in order
  handlers,      \* the runs of listen_loxone_send followed across their await
  last           \* the operation that completed last and its outcome

vars == <<config_entry, lox_config, api, callback, handlers, transports, setupPc,
          request_code, setupLog, sent, bus, delivered, last>>

session == <<config_entry, lox_config, api, callback, handlers, transports, setupPc,
             request_code, setupLog, sent, bus, delivered>>

(***************************************************************************)
(* Bounds of the model.                                                    *)
(***************************************************************************)
MaxTransports == 2
MaxSends == 2
MaxMsgs == 2
MaxStarts == 1
MaxStops == 2
MaxLen == 3

(***************************************************************************)
(* Python values.  Every value is a record of the same shape, so that      *)
(* values of different Python types can be compared:                       *)
(*   t  the type ("None", "bool", "int", "str", "list", "missing"),        *)
(*   n  the number of an int or bool,                                      *)
(*   s  the characters of a str,                                           *)
(*   xs the items of a list.                                               *)
(* "missing" stands for a key that a dict does not hold.                   *)
(***************************************************************************)
PyNone == [t |-> "None", n |-> 0, s |-> <<>>, xs |-> <<>>]
PyMissing == [t |-> "missing", n |-> 0, s |-> <<>>, xs |-> <<>>]
PyInt(k) == [t |-> "int", n |-> k, s |-> <<>>, xs |-> <<>>]
PyBool(b) == [t |-> "bool", n |-> IF b THEN 1 ELSE 0, s |-> <<>>, xs |-> <<>>]
PyStr(cs) == [t |-> "str", n |-> 0, s |-> cs, xs |-> <<>>]
PyList(items) == [t |-> "list", n |-> 0, s |-> <<>>, xs |-> items]

\* Python ==: bool is a subclass of int, so True == 1; other types only
\* equal values of their own type.
PyEq(a, b) ==
  IF a.t \in {"int", "bool"} /\ b.t \in {"int", "bool"} THEN a.n = b.n
  ELSE a.t = b.t /\ a.s = b.s /\ a.xs = b.xs

\* Python truth value: `not v` is TRUE for None, 0, False, "" and [].
PyFalsy(v) ==
  \/ v.t = "None"
  \/ v.t \in {"int", "bool"} /\ v.n = 0
  \/ v.t = "str" /\ v.s = <<>>
  \/ v.t = "list" /\ v.xs = <<>>

Digit(d) ==
  CASE d = 0 -> "0" [] d = 1 -> "1" [] d = 2 -> "2" [] d = 3 -> "3"
    [] d = 4 -> "4" [] d = 5 -> "5" [] d = 6 -> "6" [] d = 7 -> "7"
    [] d = 8 -> "8" [] d = 9 -> "9"

RECURSIVE Decimal(_)
Decimal(k) == IF k < 10 THEN <<Digit(k)>> ELSE Decimal(k \div 10) \o <<Digit(k % 10)>>

\* str(x) of the builtin types, as a sequence of characters.
PyStrOf(x) ==
  CASE x.t = "int" -> IF x.n < 0 THEN <<"-">> \o Decimal(0 - x.n) ELSE Decimal(x.n)
    [] x.t = "str" -> x.s
    [] x.t = "bool" -> IF x.n = 1 THEN <<"T", "r", "u", "e">> ELSE <<"F", "a", "l", "s", "e">>
    [] x.t = "None" -> <<"N", "o", "n", "e">>
    [] OTHER -> <<"?">>

\* sep.join(parts) for a sequence of strings (each a sequence of characters).
RECURSIVE PyJoin(_, _)
PyJoin(sep, parts) ==
  IF parts = <<>> THEN <<>>
  ELSE IF Len(parts) = 1 THEN parts[1]
  ELSE parts[1] \o sep \o PyJoin(sep, Tail(parts))

\* Iterating a value: the items of a list, the characters of a str; any
\* other builtin value modelled here is not iterable (TypeError).
PyIterable(v) == v.t \in {"list", "str"}
PyIter(v) ==
  IF v.t = "list" THEN v.xs
  ELSE [i \in 1..Len(v.s) |-> PyStr(<<v.s[i]>>)]

(***************************************************************************)
(* Outcome of evaluating an expression or of a call: the exception raised  *)
(* ("" when none) and the value produced.                                  *)
(***************************************************************************)
Ok(v) == [exc |-> "", val |-> v]
Raise(e) == [exc |-> e, val |-> PyNone]

(***************************************************************************)
(* The structure document held by LoxApp.json: None until fetched, then    *)
(* whatever JSON the miniserver served.  msInfo is itself a value: a dict  *)
(* with the three identity keys (each possibly missing), or missing, None  *)
(* or a str.                                                               *)
(***************************************************************************)
MsInfoDict(sn, nm, ty) == [t |-> "dict", serialNr |-> sn, msName |-> nm, miniserverType |-> ty]
MsInfoOther(ty) == [t |-> ty, serialNr |-> PyMissing, msName |-> PyMissing, miniserverType |-> PyMissing]

JsonNone == [t |-> "None", msInfo |-> MsInfoOther("missing"), softwareVersion |-> PyMissing]
JsonList == [t |-> "list", msInfo |-> MsInfoOther("missing"), softwareVersion |-> PyMissing]
JsonDict(ms, sw) == [t |-> "dict", msInfo |-> ms, softwareVersion |-> sw]

SerialNr == PyStr(<<"5", "0", "4", "F">>)
MsName == PyStr(<<"L", "o", "x">>)
GoodMsInfo == MsInfoDict(SerialNr, MsName, PyInt(1))
GoodVersion == PyList(<<PyInt(10), PyInt(3), PyInt(2)>>)
GoodDoc == JsonDict(GoodMsInfo, GoodVersion)

\* The documents the fetcher may deliver: a well-formed one, and one whose
\* msInfo and softwareVersion are strings.
Docs ==
  { GoodDoc,
    JsonDict(MsInfoOther("str"), PyStr(<<"1", "0">>)) }

\* Further malformed documents: keys left out, None or a number where a
\* dict or an array is expected, an empty array, a list as the document.
MalformedDocs ==
  { JsonDict(MsInfoDict(PyMissing, MsName, PyMissing), PyMissing),
    JsonDict(MsInfoOther("missing"), PyMissing),
    JsonDict(MsInfoOther("None"), PyNone),
    JsonDict(MsInfoDict(SerialNr, PyMissing, PyInt(1)), PyInt(10)),
    JsonDict(GoodMsInfo, PyList(<<>>)),
    JsonDict(GoodMsInfo, PyList(<<PyInt(10), PyNone>>)),
    JsonList }

\* Well-formed component arrays: up to MaxLen numeric components.
Components == {0, 3, 10}
VersionArrays == UNION {[1..k -> {PyInt(c) : c \in Components}] : k \in 0..MaxLen}
VersionDocs == {JsonDict(GoodMsInfo, PyList(a)) : a \in VersionArrays}

\* self.lox_config: None, or a LoxApp object with its json attribute.
LoxConfigNone == [t |-> "None", json |-> JsonNone]
LoxApp(j) == [t |-> "LoxApp", json |-> j]

(***************************************************************************)
(* Identity accessors (properties of MiniServer).                          *)
(***************************************************************************)
\* self.lox_config.json['msInfo'][key]
MsInfoLookup(lc, key) ==
  IF lc.t = "None" THEN Raise("AttributeError")
  ELSE IF lc.json.t # "dict" THEN Raise("TypeError")
  ELSE IF lc.json.msInfo.t = "missing" THEN Raise("KeyError")
  ELSE IF lc.json.msInfo.t # "dict" THEN Raise("TypeError")
  ELSE IF lc.json.msInfo[key].t = "missing" THEN Raise("KeyError")
  ELSE Ok(lc.json.msInfo[key])

\* A faulty join: the separator is written before every component instead
\* of between the components.
VersionLookup_leading_dot(lc) ==
  IF lc.t = "None" THEN Raise("AttributeError")
  ELSE IF lc.json.t # "dict" THEN Raise("TypeError")
  ELSE IF lc.json.softwareVersion.t = "missing" THEN Raise("KeyError")
  ELSE IF ~PyIterable(lc.json.softwareVersion) THEN Raise("TypeError")
  ELSE LET items == PyIter(lc.json.softwareVersion)
       IN Ok(PyStr(PyJoin(<<>>, [i \in 1..Len(items) |-> <<".">> \o PyStrOf(items[i])])))

\* ".".join([str(x) for x in self.lox_config.json['softwareVersion']])
VersionLookup(lc) ==
  IF lc.t = "None" THEN Raise("AttributeError")
  ELSE IF lc.json.t # "dict" THEN Raise("TypeError")
  ELSE IF lc.json.softwareVersion.t = "missing" THEN Raise("KeyError")
  ELSE IF ~PyIterable(lc.json.softwareVersion) THEN Raise("TypeError")
  ELSE LET items == PyIter(lc.json.softwareVersion)
       IN Ok(PyStr(PyJoin(<<".">>, [i \in 1..Len(items) |-> PyStrOf(items[i])])))

\* try: return <expr>  except: return None
ExceptAll(r) == IF r.exc # "" THEN Ok(PyNone) ELSE r

serial(lc) == ExceptAll(MsInfoLookup(lc, "serialNr"))

name(lc) == ExceptAll(MsInfoLookup(lc, "msName"))

software_version(lc) == ExceptAll(VersionLookup(lc))

miniserver_type(lc) == ExceptAll(MsInfoLookup(lc, "miniserverType"))

\* self.config_entry.data[CONF_HOST]: no guard around the lookup.
host(ce) == IF ce.data_host.t = "missing" THEN Raise("KeyError") ELSE Ok(ce.data_host)

\* self.config_entry.unique_id: an attribute, None when the entry has none.
miniserverid(ce) == Ok(ce.unique_id)

HostName == PyStr(<<"m", "s">>)
UniqueId == PyStr(<<"u", "1">>)
\* An entry that holds both, and one that holds neither.
CompleteEntry == [data_host |-> HostName, unique_id |-> UniqueId]
ConfigEntries == {CompleteEntry, [data_host |-> PyMissing, unique_id |-> PyNone]}

(***************************************************************************)
(* Names imported from .const and homeassistant.const.                     *)
(***************************************************************************)
SENDDOMAIN == "loxone_send"
SECUREDSENDDOMAIN == "loxone_send_secured"
EVENT == "loxone_event"
DEFAULT == "<default>"
ATTR_UUID == "uuid"
ATTR_VALUE == "value"
ATTR_CODE == "code"

\* A key that the payload dict does not hold.
Absent == "<absent>"

\* dict.get(key, default)
DictGet(data, key, default) == IF data[key] = Absent THEN default ELSE data[key]

\* Payload dicts: all three keys, then with the code, with the value and
\* the code, and with the uuid left out.
Payloads ==
  { [uuid |-> "abc", value |-> "on", code |-> "1234"],
    [uuid |-> "abc", value |-> "on", code |-> Absent],
    [uuid |-> "abc", value |-> Absent, code |-> Absent],
    [uuid |-> Absent, value |-> "on", code |-> "1234"] }
FullData == [uuid |-> "abc", value |-> "on", code |-> "1234"]
NoData == [uuid |-> Absent, value |-> Absent, code |-> Absent]
\* Bus events: the event type, whether event.data is a dict, and the dict.
Events ==
  [event_type : {SENDDOMAIN, SECUREDSENDDOMAIN}, isdict : {TRUE}, data : Payloads]
    \cup [event_type : {SENDDOMAIN, SECUREDSENDDOMAIN}, isdict : {FALSE}, data : {NoData}]
    \cup [event_type : {"other"}, isdict : {TRUE}, data : {FullData}]
NoEvent == [event_type |-> "", isdict |-> FALSE, data |-> NoData]
\* Service calls: call.data is always a dict.
Calls == [event_type : {"service"}, isdict : {TRUE}, data : Payloads]

Messages == {"m1", "m2"}

(***************************************************************************)
(* The collaborators: LoxApp.getJson and the LoxWs transport.              *)
(***************************************************************************)
NoApi == 0
TransportIds == 1..MaxTransports

NoTransport ==
  [state |-> "none", running |-> FALSE, starts |-> 0, stops |-> 0,
   message_call_back |-> "None", loxconfig |-> JsonNone]

\* LoxWs(user=..., loxconfig=json, ...): a fresh, unstarted transport.
LoxWs(json) == [NoTransport EXCEPT !.state = "constructed", !.loxconfig = json]

\* A faulty construction: a session that holds a transport keeps it instead
\* of constructing a new one.
NextTransportId_reuse ==
  IF api # NoApi THEN api
  ELSE 1 + Cardinality({i \in TransportIds : transports[i].state # "none"})

NextTransportId == 1 + Cardinality({i \in TransportIds : transports[i].state # "none"})

Status200 == PyInt(200)
Status200Str == PyStr(<<"2", "0", "0">>)
\* What getJson may report: a status with the json it left in LoxApp.json.
Statuses == {Status200, Status200Str, PyInt(404), PyStr(<<"4", "0", "4">>)}
FetchSucceeded(status) == status \in {Status200, Status200Str}
FetchedJson(status) == IF FetchSucceeded(status) THEN Docs ELSE {JsonNone}

\* What async_init may return.
InitResults == {PyBool(TRUE), PyBool(FALSE), PyNone, PyInt(0), PyInt(1), PyInt(0 - 1)}
\* LoxWs.async_init reports failure by a falsy value or -1.
TransportInitFailed(r) == PyFalsy(r) \/ PyEq(r, PyInt(0 - 1))

\* What a send on the transport may do: return, or raise ValueError.
SendOutcomes == {"", "ValueError"}

CallbackFns == {"async_loxone_callback", "other_callback"}

(***************************************************************************)
(* The record of the operation that completed last:                        *)
(* op the operation, exc the exception that left it ("" when it returned), *)
(* ret its return value, ev the event or call it handled; for async_setup  *)
(* also its locals at the return: request_code, res, and the collaborator  *)
(* calls it made, in order; for async_set_callback its argument            *)
(* message_callback; for stop_loxone and shutdown where async_setup was    *)
(* suspended when they ran ("idle" when no async_setup was in flight).     *)
(***************************************************************************)
Done(op, exc, ret, ev) ==
  [op |-> op, exc |-> exc, ret |-> ret, ev |-> ev,
   request_code |-> PyMissing, res |-> PyMissing, log |-> <<>>,
   message_callback |-> "None", during |-> "idle"]
Returned(op, ret) == Done(op, "", ret, NoEvent)
Raised(op, exc) == Done(op, exc, PyNone, NoEvent)
SetupReturned(ret, code, res, log) ==
  [Returned("async_setup", ret) EXCEPT !.request_code = code, !.res = res, !.log = log]

\* MiniServer(hass, config_entry)
InitWith(entry) ==
  /\ config_entry = entry
  /\ lox_config = LoxConfigNone
  /\ api = NoApi
  /\ callback = "None"
  /\ transports = [i \in TransportIds |-> NoTransport]
  /\ setupPc = "idle"
  /\ request_code = PyMissing
  /\ setupLog = <<>>
  /\ sent = <<>>
  /\ bus = <<>>
  /\ delivered = <<>>
  /\ handlers = <<>>
  /\ last = Returned("__init__", PyNone)

Init == \E entry \in ConfigEntries : InitWith(entry)

(***************************************************************************)
(* async_setup, one action per stretch between two awaits.                 *)
(***************************************************************************)
\* A faulty status check: `if request_code:` instead of the comparison.
StatusOk_truthy(code) == ~PyFalsy(code)

\* request_code == 200 or request_code == "200"
StatusOk(code) == PyEq(code, Status200) \/ PyEq(code, Status200Str)

\* A faulty result check: `if not res:` without the -1 sentinel.
InitFailed_falsy_only(res) == PyFalsy(res)

\* not res or res == -1
InitFailed(res) == PyFalsy(res) \/ PyEq(res, PyInt(0 - 1))

\* Lines 113-118: a fresh LoxApp, then await getJson().
async_setup_begin ==
  /\ setupPc = "idle"
  /\ NextTransportId <= MaxTransports
  /\ lox_config' = LoxApp(JsonNone)
  /\ setupPc' = "getJson"
  /\ request_code' = PyMissing
  /\ setupLog' = <<"getJson">>
  /\ UNCHANGED <<config_entry, api, callback, handlers, transports, sent, bus, delivered, last>>

\* Lines 118-128 and 134-140: getJson returns or raises; on a success status
\* the transport is constructed and async_init awaited.
async_setup_fetched ==
  /\ setupPc = "getJson"
  /\ \/ /\ setupPc' = "idle"
        /\ last' = SetupReturned(PyBool(FALSE), PyMissing, PyMissing,
                                 Append(setupLog, "ConnectionError"))
        /\ setupLog' = <<>>
        /\ UNCHANGED <<lox_config, api, transports, request_code>>
     \/ \E code \in Statuses : \E json \in FetchedJson(code) :
          /\ lox_config' = LoxApp(json)
          /\ IF StatusOk(code)
             THEN /\ api' = NextTransportId
                  /\ transports' = [transports EXCEPT ![NextTransportId] = LoxWs(json)]
                  /\ request_code' = code
                  /\ setupLog' = setupLog \o <<"LoxWs", "async_init">>
                  /\ setupPc' = "async_init"
                  /\ UNCHANGED last
             ELSE /\ setupPc' = "idle"
                  /\ last' = SetupReturned(PyBool(FALSE), code, PyMissing, setupLog)
                  /\ setupLog' = <<>>
                  /\ UNCHANGED <<api, transports, request_code>>
  /\ UNCHANGED <<config_entry, callback, handlers, sent, bus, delivered>>

\* Lines 128-131, 138-141: async_init returns or raises ConnectionError.
async_setup_inited ==
  /\ setupPc = "async_init"
  /\ setupPc' = "idle"
  /\ request_code' = PyMissing
  /\ setupLog' = <<>>
  /\ \/ /\ transports' = [transports EXCEPT ![api].state = "init_failed"]
        /\ last' = SetupReturned(PyBool(FALSE), request_code, PyMissing,
                                 Append(setupLog, "ConnectionError"))
     \/ \E res \in InitResults :
          /\ transports' = [transports EXCEPT ![api].state =
                              IF TransportInitFailed(res) THEN "init_failed" ELSE "initialized"]
          /\ last' = SetupReturned(PyBool(~InitFailed(res)), request_code, res, setupLog)
  /\ UNCHANGED <<config_entry, lox_config, api, callback, handlers, sent, bus, delivered>>

(***************************************************************************)
(* start_loxone, stop_loxone, shutdown: each awaits an operation of        *)
(* self.api, with no guard on self.api being None.                         *)
(***************************************************************************)
\* Evaluating self.api.<attribute>: None has no attributes.
ApiAttr(a) == IF a = NoApi THEN Raise("AttributeError") ELSE Ok(PyNone)

\* The start and the stop calls made so far, over all transports.
RECURSIVE Total(_, _)
Total(field, n) == IF n = 0 THEN 0 ELSE transports[n][field] + Total(field, n - 1)
Starts == Total("starts", MaxTransports)
Stops == Total("stops", MaxTransports)

\* LoxWs.start / LoxWs.stop, as the transport interface describes them.
TransportStart(tr) == [tr EXCEPT !.running = TRUE, !.starts = tr.starts + 1]
TransportStop(tr) == [tr EXCEPT !.running = FALSE, !.stops = tr.stops + 1]

start_loxone ==
  /\ IF ApiAttr(api).exc # ""
     THEN /\ last' = Raised("start_loxone", ApiAttr(api).exc)
          /\ UNCHANGED transports
     ELSE /\ Starts < MaxStarts
          /\ transports' = [transports EXCEPT ![api] = TransportStart(transports[api])]
          /\ last' = Returned("start_loxone", PyNone)
  /\ UNCHANGED <<config_entry, lox_config, api, callback, handlers, setupPc, request_code,
                 setupLog, sent, bus, delivered>>

\* The body shared by stop_loxone and shutdown: await self.api.stop().
StopApi(op) ==
  /\ IF ApiAttr(api).exc # ""
     THEN /\ last' = [Raised(op, ApiAttr(api).exc) EXCEPT !.during = setupPc]
          /\ UNCHANGED transports
     ELSE /\ Stops < MaxStops
          /\ transports' = [transports EXCEPT ![api] = TransportStop(transports[api])]
          /\ last' = [Returned(op, PyNone) EXCEPT !.during = setupPc]
  /\ UNCHANGED <<config_entry, lox_config, api, callback, handlers, setupPc, request_code,
                 setupLog, sent, bus, delivered>>

stop_loxone == StopApi("stop_loxone")

shutdown == StopApi("shutdown")

(***************************************************************************)
(* The bridge: bus events and service calls to transport sends, inbound    *)
(* messages to bus events.                                                 *)
(***************************************************************************)
\* A call of self.api.send_websocket_command(device_uuid, value) or of
\* self.api.send_secured__websocket_command(device_uuid, value, code).
SendPlain(uuid, value) ==
  [op |-> "send_websocket_command", args |-> <<uuid, value>>]
SendSecured(uuid, value, code) ==
  [op |-> "send_secured__websocket_command", args |-> <<uuid, value, code>>]

\* A faulty plain call: the arguments in the order they are extracted,
\* (value, uuid).
PlainCall_swapped(data) ==
  SendPlain(DictGet(data, ATTR_VALUE, DEFAULT), DictGet(data, ATTR_UUID, DEFAULT))

\* Lines 158-160: the plain branch's call.
PlainCall(data) ==
  SendPlain(DictGet(data, ATTR_UUID, DEFAULT), DictGet(data, ATTR_VALUE, DEFAULT))

\* A faulty secured call: the secured branch forwards through the plain send.
SecuredCall_plain(data) == PlainCall(data)

\* Lines 164-167: the secured branch's call.
SecuredCall(data) ==
  SendSecured(DictGet(data, ATTR_UUID, DEFAULT), DictGet(data, ATTR_VALUE, DEFAULT),
              DictGet(data, ATTR_CODE, DEFAULT))

\* Which branch of listen_loxone_send an event takes: "plain", "secured" or "".
Branch(ev) ==
  IF ev.event_type = SENDDOMAIN /\ ev.isdict THEN "plain"
  ELSE IF ev.event_type = SECUREDSENDDOMAIN /\ ev.isdict THEN "secured"
  ELSE ""

\* A faulty handler: the ValueError is logged and raised again.
ExceptValueError_reraise(exc) == exc

\* except ValueError: traceback.print_exc()
ExceptValueError(exc) == IF exc = "ValueError" THEN "" ELSE exc

\* What one run of a handler does: the sends it makes on the transport and
\* the exception that leaves it ("" when it returns); out is what the
\* transport's send does when it is called.
Outcome(calls, exc) == [calls |-> calls, exc |-> exc]

\* Lines 155-170.
ListenOutcome(a, ev, out) ==
  IF Branch(ev) = "" THEN Outcome(<<>>, "")
  ELSE IF ApiAttr(a).exc # "" THEN Outcome(<<>>, ExceptValueError(ApiAttr(a).exc))
  ELSE IF Branch(ev) = "plain" THEN Outcome(<<PlainCall(ev.data)>>, ExceptValueError(out))
  ELSE Outcome(<<SecuredCall(ev.data)>>, ExceptValueError(out))

\* Lines 174-176: no try block, and call.data is not checked.
ServiceOutcome(a, call, out) ==
  IF ApiAttr(a).exc # "" THEN Outcome(<<>>, ApiAttr(a).exc)
  ELSE Outcome(<<PlainCall(call.data)>>, out)

\* A faulty forwarding: a command for the device id of the command sent
\* last replaces that command instead of following it.
Forward_coalesce(s, calls) ==
  IF s # <<>> /\ calls # <<>> /\ s[Len(s)].args[1] = calls[1].args[1]
  THEN [s EXCEPT ![Len(s)] = calls[1]]
  ELSE s \o calls

\* Lines 160 and 167: the handler calls the transport's send as soon as it
\* has extracted the arguments; the call is made before the handler can be
\* suspended in the await.
Forward(s, calls) == s \o calls

Handle(op, ev, outcome) ==
  /\ Len(sent) < MaxSends
  /\ sent' = Forward(sent, outcome.calls)
  /\ last' = Done(op, outcome.exc, PyNone, ev)
  /\ UNCHANGED <<config_entry, lox_config, api, callback, handlers, transports, setupPc,
                 request_code, setupLog, bus, delivered>>

listen_loxone_send(ev, out) ==
  Handle("listen_loxone_send", ev, ListenOutcome(api, ev, out))

handle_websocket_command(call, out) ==
  Handle("handle_websocket_command", call, ServiceOutcome(api, call, out))

(***************************************************************************)
(* listen_loxone_send followed across its await, so that several runs can  *)
(* be suspended at once.  A bus event starts a run: the handler extracts   *)
(* the arguments and calls the transport's send, and is suspended until    *)
(* the send completes; a run that makes no send (no branch taken, or       *)
(* self.api is None) completes at once.  handlers keeps the runs in the    *)
(* order the bus delivered their events: the event, self.api at the call,  *)
(* the position (pc), what the send did (out) and the exception that left  *)
(* the handler (exc).                                                      *)
(***************************************************************************)
Run(ev, a, pc, out, exc) == [ev |-> ev, api |-> a, pc |-> pc, out |-> out, exc |-> exc]

\* Lines 155-167, up to the suspension in the await.
listen_loxone_send_call(ev) ==
  /\ Len(handlers) < MaxSends
  /\ LET o == ListenOutcome(api, ev, "")
     IN /\ sent' = Forward(sent, o.calls)
        /\ IF o.calls = <<>>
           THEN /\ handlers' = Append(handlers, Run(ev, api, "done", "", o.exc))
                /\ last' = Done("listen_loxone_send", o.exc, PyNone, ev)
           ELSE /\ handlers' = Append(handlers, Run(ev, api, "send", "", ""))
                /\ UNCHANGED last
  /\ UNCHANGED <<config_entry, lox_config, api, callback, transports, setupPc,
                 request_code, setupLog, bus, delivered>>

\* Lines 160 / 167 and 169-170: the send of run i returns or raises, and
\* the handler resumes and completes.
listen_loxone_send_resume(i, out) ==
  /\ handlers[i].pc = "send"
  /\ LET h == handlers[i]
         exc == ListenOutcome(h.api, h.ev, out).exc
     IN /\ handlers' = [handlers EXCEPT ![i] = Run(h.ev, h.api, "done", out, exc)]
        /\ last' = Done("listen_loxone_send", exc, PyNone, h.ev)
  /\ UNCHANGED <<config_entry, lox_config, api, callback, transports, setupPc,
                 request_code, setupLog, sent, bus, delivered>>

\* A faulty registration: a slot that holds a callback keeps it.
SetCallback_keep_first(tr, cb) ==
  IF tr.message_call_back # "None" THEN tr ELSE [tr EXCEPT !.message_call_back = cb]

\* <transport>.message_call_back = message_callback
SetCallback(tr, cb) == [tr EXCEPT !.message_call_back = cb]

\* self.api.message_call_back = message_callback
async_set_callback(cb) ==
  /\ IF ApiAttr(api).exc # ""
     THEN /\ last' = [Raised("async_set_callback", ApiAttr(api).exc)
                        EXCEPT !.message_callback = cb]
          /\ UNCHANGED transports
     ELSE /\ transports' = [transports EXCEPT ![api] = SetCallback(transports[api], cb)]
          /\ last' = [Returned("async_set_callback", PyNone)
                        EXCEPT !.message_callback = cb]
  /\ UNCHANGED <<config_entry, lox_config, api, callback, handlers, setupPc, request_code,
                 setupLog, sent, bus, delivered>>

\* hass.async_fire(event_type, data)
async_fire(b, event_type, data) == Append(b, [event_type |-> event_type, data |-> data])

\* A faulty relay: a message equal to the one fired last is not fired again.
async_loxone_callback_drop_repeat(b, message) ==
  IF b # <<>> /\ b[Len(b)].data = message THEN b ELSE async_fire(b, EVENT, message)

\* self.hass.async_fire(EVENT, message)
async_loxone_callback(b, message) == async_fire(b, EVENT, message)

\* A running transport hands an inbound message to its message_call_back.
transport_message(tid, message) ==
  /\ Len(delivered) < MaxMsgs
  /\ transports[tid].running
  /\ transports[tid].message_call_back # "None"
  /\ delivered' = Append(delivered, [cb |-> transports[tid].message_call_back,
                                     message |-> message])
  /\ IF transports[tid].message_call_back = "async_loxone_callback"
     THEN bus' = async_loxone_callback(bus, message)
     ELSE UNCHANGED bus
  /\ UNCHANGED <<config_entry, lox_config, api, callback, handlers, transports, setupPc,
                 request_code, setupLog, sent, last>>

(***************************************************************************)
(* Reading the identity properties.                                        *)
(***************************************************************************)
Read(op, r) ==
  /\ last' = Done(op, r.exc, r.val, NoEvent)
  /\ UNCHANGED session

read_serial == Read("serial", serial(lox_config))
read_name == Read("name", name(lox_config))
read_software_version == Read("software_version", software_version(lox_config))
read_miniserver_type == Read("miniserver_type", miniserver_type(lox_config))
read_host == Read("host", host(config_entry))
read_miniserverid == Read("miniserverid", miniserverid(config_entry))

Setup == async_setup_begin \/ async_setup_fetched \/ async_setup_inited
Lifecycle == start_loxone \/ stop_loxone \/ shutdown
Commands ==
  \/ \E ev \in Events : \E out \in SendOutcomes : listen_loxone_send(ev, out)
  \/ \E call \in Calls : \E out \in SendOutcomes : handle_websocket_command(call, out)
Inbound ==
  \/ \E cb \in CallbackFns : async_set_callback(cb)
  \/ \E tid \in TransportIds : \E m \in Messages : transport_message(tid, m)
Identity ==
  \/ read_serial \/ read_name \/ read_software_version \/ read_miniserver_type
  \/ read_host \/ read_miniserverid

Next == Setup \/ Lifecycle \/ Commands \/ Inbound \/ Identity

Spec == Init /\ [][Next]_vars

(***************************************************************************)
(* The same machine restricted to one group of operations at a time, so    *)
(* that each group can be explored with its full range of inputs.  Only    *)
(* the host and miniserverid properties read the data and the unique id of *)
(* the config entry (async_setup reads config_entry.options), so the other *)
(* groups are explored for one entry.                                      *)
(***************************************************************************)
InitComplete == InitWith(CompleteEntry)

NextSession == Setup \/ Lifecycle
SpecSession == InitComplete /\ [][NextSession]_vars

NextCommands == Setup \/ Commands
SpecCommands == InitComplete /\ [][NextCommands]_vars

NextInbound == Setup \/ start_loxone \/ Inbound
SpecInbound == InitComplete /\ [][NextInbound]_vars

NextIdentity == Setup \/ Identity
SpecIdentity == Init /\ [][NextIdentity]_vars

\* The command handler with its runs interleaved at the await.
Interleaved ==
  \/ \E ev \in Events : listen_loxone_send_call(ev)
  \/ \E i \in 1..MaxSends : \E out \in SendOutcomes :
       i <= Len(handlers) /\ listen_loxone_send_resume(i, out)
\* The session after a successful async_setup: the host subscribes the
\* handler to the bus once async_setup has returned True.
InitReady ==
  /\ config_entry = CompleteEntry
  /\ lox_config = LoxApp(GoodDoc)
  /\ api = 1
  /\ callback = "None"
  /\ transports = [i \in TransportIds |->
                     IF i = 1 THEN [LoxWs(GoodDoc) EXCEPT !.state = "initialized"]
                     ELSE NoTransport]
  /\ setupPc = "idle"
  /\ request_code = PyMissing
  /\ setupLog = <<>>
  /\ sent = <<>>
  /\ bus = <<>>
  /\ delivered = <<>>
  /\ handlers = <<>>
  /\ last = SetupReturned(PyBool(TRUE), Status200, PyBool(TRUE),
                          <<"getJson", "LoxWs", "async_init">>)
SpecOrder == InitReady /\ [][Interleaved]_vars

\* The session after a successful async_setup, for every document of a
\* wider range (well-formed version arrays, malformed documents), and the
\* properties read on it.
InitDocument ==
  /\ config_entry \in ConfigEntries
  /\ \E json \in VersionDocs \cup MalformedDocs \cup Docs :
       /\ lox_config = LoxApp(json)
       /\ transports = [i \in TransportIds |->
                          IF i = 1 THEN [LoxWs(json) EXCEPT !.state = "initialized"]
                          ELSE NoTransport]
  /\ api = 1
  /\ callback = "None"
  /\ setupPc = "idle"
  /\ request_code = PyMissing
  /\ setupLog = <<>>
  /\ sent = <<>>
  /\ bus = <<>>
  /\ delivered = <<>>
  /\ handlers = <<>>
  /\ last = SetupReturned(PyBool(TRUE), Status200, PyBool(TRUE),
                          <<"getJson", "LoxWs", "async_init">>)
SpecDocument == InitDocument /\ [][Identity]_vars

(***************************************************************************)
(* Properties.                                                             *)
(***************************************************************************)

\* C1: stop_loxone and shutdown never raise, whatever the session state:
\* before any async_setup (self.api is None) and when repeated.
C1_StopNeverRaises ==
  last.op \in {"stop_loxone", "shutdown"} => last.exc = ""

\* C2: when getJson raises ConnectionError or reports a status other than
\* 200 / "200", async_setup returns False without raising, and the step
\* constructs no transport: self.api and the transports are as before.
C2_FetchFailureReturnsFalse ==
  [][(setupPc = "getJson" /\ setupPc' # "getJson"
        /\ request_code' \notin {PyInt(200), PyStr(<<"2", "0", "0">>)})
     => /\ setupPc' = "idle"
        /\ last'.op = "async_setup"
        /\ last'.exc = ""
        /\ last'.ret = PyBool(FALSE)
        /\ last'.request_code \notin {PyInt(200), PyStr(<<"2", "0", "0">>)}
        /\ "LoxWs" \notin {last'.log[i] : i \in 1..Len(last'.log)}
        /\ api' = api
        /\ transports' = transports]_vars

C2_Witness ==
  /\ last.op = "async_setup"
  /\ last.request_code = PyStr(<<"4", "0", "4">>)
  /\ last.ret = PyBool(FALSE)
  /\ api = NoApi

\* C3: async_setup never raises; it returns True exactly when the status
\* was 200 or "200" and async_init returned a value that is neither falsy
\* nor -1; async_init is only reached through getJson, the status check
\* and the construction of the transport, in that order.
C3_SetupSucceedsExactlyWhen ==
  last.op = "async_setup" =>
    /\ last.exc = ""
    /\ last.ret \in {PyBool(TRUE), PyBool(FALSE)}
    /\ (last.ret = PyBool(TRUE)) <=>
         (/\ last.request_code \in {PyInt(200), PyStr(<<"2", "0", "0">>)}
          /\ last.res \in {PyBool(TRUE), PyInt(1)})
    /\ last.res \in {PyBool(FALSE), PyNone, PyInt(0), PyInt(0 - 1)} => last.ret = PyBool(FALSE)
    /\ (last.res # PyMissing \/ last.ret = PyBool(TRUE)) =>
         /\ last.log = <<"getJson", "LoxWs", "async_init">>
         /\ last.request_code \in {PyInt(200), PyStr(<<"2", "0", "0">>)}

C3_Witness ==
  /\ last.op = "async_setup"
  /\ last.ret = PyBool(TRUE)
  /\ last.request_code = PyStr(<<"2", "0", "0">>)
  /\ last.res = PyInt(1)
  /\ api # NoApi
  /\ transports[api].state = "initialized"

\* The value a handler passes for a payload key: the payload's, or DEFAULT.
Passed(v) == IF v = Absent THEN DEFAULT ELSE v

\* A step in which listen_loxone_send handles the event last'.ev: no other
\* operation records that name, and every other step leaves both the
\* record and the sends as they are or records another name.
ListenCompletes ==
  /\ last'.op = "listen_loxone_send"
  /\ (last' # last \/ sent' # sent)

\* C4: while the session holds a transport, handling a plain command event
\* whose data is a dict appends exactly one call to the sends, the plain
\* send with (uuid, value) in that order, an absent key replaced by DEFAULT.
C4_PlainEventForwarded ==
  [][(/\ ListenCompletes
      /\ last'.ev.event_type = SENDDOMAIN
      /\ last'.ev.isdict
      /\ api # NoApi)
     => sent' = Append(sent, [op |-> "send_websocket_command",
                              args |-> <<Passed(last'.ev.data.uuid),
                                         Passed(last'.ev.data.value)>>])]_vars

C4_Witness ==
  /\ last.op = "listen_loxone_send"
  /\ last.ev.event_type = SENDDOMAIN
  /\ last.ev.data = [uuid |-> "abc", value |-> Absent, code |-> Absent]
  /\ Len(sent) = 2
  /\ sent[1] = [op |-> "send_websocket_command", args |-> <<"abc", "on">>]
  /\ sent[2] = [op |-> "send_websocket_command", args |-> <<"abc", DEFAULT>>]

\* C5: while the session holds a transport, handling a secured command
\* event whose data is a dict appends exactly one call to the sends, the
\* secured send with (uuid, value, code) in that order.
C5_SecuredEventForwarded ==
  [][(/\ ListenCompletes
      /\ last'.ev.event_type = SECUREDSENDDOMAIN
      /\ last'.ev.isdict
      /\ api # NoApi)
     => sent' = Append(sent, [op |-> "send_secured__websocket_command",
                              args |-> <<Passed(last'.ev.data.uuid),
                                         Passed(last'.ev.data.value),
                                         Passed(last'.ev.data.code)>>])]_vars

C5_Witness ==
  /\ last.op = "listen_loxone_send"
  /\ last.ev.event_type = SECUREDSENDDOMAIN
  /\ last.ev.data = [uuid |-> "abc", value |-> "on", code |-> "1234"]
  /\ sent # <<>>
  /\ sent[Len(sent)] = [op |-> "send_secured__websocket_command",
                        args |-> <<"abc", "on", "1234">>]

\* The plain command event that carries the payload of a service call.
AsPlainEvent(call) == [event_type |-> SENDDOMAIN, isdict |-> TRUE, data |-> call.data]

\* C6: a service call is handled as the plain command event with the same
\* payload is: whatever the transport's send does, the same sends are made
\* and the same exception (none) leaves the handler.
C6_ServiceCallAsPlainEvent ==
  last.op = "handle_websocket_command" =>
    \A out \in SendOutcomes :
      ServiceOutcome(api, last.ev, out).exc = last.exc =>
        ListenOutcome(api, AsPlainEvent(last.ev), out) = ServiceOutcome(api, last.ev, out)

\* The messages handed to async_loxone_callback, in the order of delivery.
RECURSIVE Relayed(_)
Relayed(ds) ==
  IF ds = <<>> THEN <<>>
  ELSE IF ds[1].cb = "async_loxone_callback" THEN <<ds[1].message>> \o Relayed(Tail(ds))
  ELSE Relayed(Tail(ds))

\* C7: the bus holds exactly one event of type EVENT per message handed to
\* async_loxone_callback, carrying that message, in the order of delivery.
C7_EveryMessageRelayedInOrder ==
  /\ Len(bus) = Len(Relayed(delivered))
  /\ \A i \in 1..Len(bus) :
       bus[i] = [event_type |-> EVENT, data |-> Relayed(delivered)[i]]

C7_Witness ==
  /\ Len(bus) = 2
  /\ bus[1].data = "m2"
  /\ bus[2].data = "m2"
  /\ Relayed(delivered) = <<"m2", "m2">>

\* The session holds no structure document.
NoDocument == lox_config.t = "None" \/ lox_config.json.t = "None"
\* The last async_setup failed: no transport, or one whose async_init failed.
SetupFailed == setupPc = "idle" /\ (api = NoApi \/ transports[api].state = "init_failed")
\* The document's msInfo is missing or is not a dict.
MsInfoMalformed == lox_config.json.t # "dict" \/ lox_config.json.msInfo.t # "dict"
\* The document's softwareVersion is missing or is not an array.
VersionMalformed == lox_config.json.t # "dict" \/ lox_config.json.softwareVersion.t # "list"

\* C8: serial, name, software_version and miniserver_type never raise, and
\* return None when there is no document, after a failed setup, and when
\* the substructure they read is missing or of the wrong shape.
C8_AccessorsAbsentWhenMalformed ==
  /\ last.op \in {"serial", "name", "software_version", "miniserver_type"} => last.exc = ""
  /\ (last.op \in {"serial", "name", "miniserver_type"}
        /\ (NoDocument \/ SetupFailed \/ MsInfoMalformed)) => last.ret = PyNone
  /\ (last.op = "software_version"
        /\ (NoDocument \/ SetupFailed \/ VersionMalformed)) => last.ret = PyNone

\* C9: host and miniserverid never raise, and return None when the config
\* entry lacks the host or the unique id.
C9_HostAndIdNeverRaise ==
  /\ last.op \in {"host", "miniserverid"} => last.exc = ""
  /\ (last.op = "host" /\ config_entry.data_host = PyMissing) => last.ret = PyNone
  /\ (last.op = "miniserverid" /\ config_entry.unique_id = PyNone) => last.ret = PyNone

\* The number a sequence of decimal digits denotes.
DigitValue(c) == CHOOSE d \in 0..9 : Digit(d) = c
RECURSIVE DecimalValue(_)
DecimalValue(cs) ==
  IF cs = <<>> THEN 0
  ELSE 10 * DecimalValue(SubSeq(cs, 1, Len(cs) - 1)) + DigitValue(cs[Len(cs)])

\* The fields of a string that "." separates (none for the empty string).
RECURSIVE Fields(_, _)
Fields(cs, field) ==
  IF cs = <<>> THEN (IF field = <<>> THEN <<>> ELSE <<field>>)
  ELSE IF cs[1] = "." THEN <<field>> \o Fields(Tail(cs), <<>>)
  ELSE Fields(Tail(cs), Append(field, cs[1]))

IsDigits(cs) == cs # <<>> /\ \A i \in 1..Len(cs) : \E d \in 0..9 : Digit(d) = cs[i]

\* The document's softwareVersion is an array of non-negative integers.
VersionWellFormed ==
  /\ lox_config.t = "LoxApp"
  /\ lox_config.json.t = "dict"
  /\ lox_config.json.softwareVersion.t = "list"
  /\ \A i \in 1..Len(lox_config.json.softwareVersion.xs) :
       /\ lox_config.json.softwareVersion.xs[i].t = "int"
       /\ lox_config.json.softwareVersion.xs[i].n >= 0

\* C10: for a well-formed component array, software_version is a string
\* whose "."-separated fields are the decimal forms of the components, one
\* per component and in their order; [10, 3, 2] gives "10.3.2".
C10_VersionIsDotJoined ==
  (last.op = "software_version" /\ VersionWellFormed) =>
    LET xs == lox_config.json.softwareVersion.xs
        fs == Fields(last.ret.s, <<>>)
    IN /\ last.exc = ""
       /\ last.ret.t = "str"
       /\ Len(fs) = Len(xs)
       /\ \A i \in 1..Len(xs) : IsDigits(fs[i]) /\ DecimalValue(fs[i]) = xs[i].n
       /\ (last.ret.s # <<>> => last.ret.s[Len(last.ret.s)] # ".")
       /\ (xs = <<PyInt(10), PyInt(3), PyInt(2)>>
             => last.ret.s = <<"1", "0", ".", "3", ".", "2">>)

C10_Witness ==
  /\ last.op = "software_version"
  /\ lox_config.json.softwareVersion = PyList(<<PyInt(10), PyInt(3), PyInt(2)>>)
  /\ last.ret = PyStr(<<"1", "0", ".", "3", ".", "2">>)

\* A step in which async_set_callback(last'.message_callback) completes:
\* the steps of async_setup move setupPc, a delivery extends delivered, and
\* every other operation records its own name.
RegistrationCompletes ==
  /\ last'.op = "async_set_callback"
  /\ setupPc' = setupPc
  /\ delivered' = delivered
  /\ (last' # last \/ transports' # transports)

\* C11: while the session holds a transport, async_set_callback(cb) puts cb
\* into that transport's message_call_back slot, replacing whatever the
\* slot held, and nothing else writes a slot; every inbound message is
\* handed exactly once to the callback in the slot of the transport that
\* delivers it, that is to the callback registered last, and to no other.
C11_LatestCallbackReceivesEachMessage ==
  [][
    /\ (RegistrationCompletes /\ last'.exc = "") =>
         /\ api # NoApi
         /\ transports' =
              [transports EXCEPT ![api].message_call_back = last'.message_callback]
         /\ bus' = bus
    /\ (RegistrationCompletes /\ api # NoApi) => last'.exc = ""
    /\ (delivered' # delivered) =>
         /\ transports' = transports
         /\ \E tid \in TransportIds : \E m \in Messages :
              /\ transports[tid].running
              /\ delivered' = Append(delivered,
                   [cb |-> transports[tid].message_call_back, message |-> m])
    /\ \A t \in TransportIds :
         (transports'[t].message_call_back # transports[t].message_call_back)
           => (RegistrationCompletes /\ t = api)
  ]_vars

C11_Witness ==
  /\ last.op = "async_set_callback"
  /\ last.exc = ""
  /\ last.message_callback = "async_loxone_callback"
  /\ Len(delivered) = 2
  /\ delivered[1] = [cb |-> "other_callback", message |-> "m1"]
  /\ delivered[2] = [cb |-> "async_loxone_callback", message |-> "m1"]
  /\ bus = <<[event_type |-> EVENT, data |-> "m1"]>>

\* C12: when async_setup has returned False, the session holds no transport
\* of the failed attempt: self.api does not refer to a transport whose
\* async_init failed, and no such transport is ever started.
C12_FailedSetupInstallsNoTransport ==
  /\ (setupPc = "idle" /\ last.op = "async_setup" /\ last.ret = PyBool(FALSE))
       => (api = NoApi \/ transports[api].state # "init_failed")
  /\ \A t \in TransportIds :
       transports[t].state = "init_failed" => transports[t].starts = 0

\* C13: stop_loxone and shutdown return from every state; a transport is
\* stopped at most once however often stop is called; and a transport that
\* has been stopped is not running, whatever start calls follow.
C13_StopIsTerminalAndIdempotent ==
  /\ last.op \in {"stop_loxone", "shutdown"} => last.exc = ""
  /\ \A t \in TransportIds : transports[t].stops <= 1
  /\ \A t \in TransportIds : transports[t].stops > 0 => ~transports[t].running

\* The session holds a transport that is ready to run: initialized, never
\* started and never stopped.
Ready ==
  /\ api # NoApi
  /\ transports[api].state = "initialized"
  /\ transports[api].starts = 0
  /\ transports[api].stops = 0
\* The session holds a running transport.
Running == api # NoApi /\ transports[api].running

\* C14: when stop_loxone or shutdown has run while async_setup was suspended
\* (awaiting getJson or async_init) and no other operation has completed
\* since, the session is neither Ready nor Running once that async_setup
\* has completed.
C14_StopCancelsSetupInFlight ==
  [][(/\ setupPc # "idle"
      /\ setupPc' = "idle"
      /\ last.op \in {"stop_loxone", "shutdown"}
      /\ last.during # "idle")
     => ~Ready' /\ ~Running']_vars

\* A run that handles a command event with a dict payload while the session
\* holds a transport: the runs from which a send is due.
Forwards(h) ==
  /\ h.api # NoApi
  /\ h.ev.isdict
  /\ h.ev.event_type \in {SENDDOMAIN, SECUREDSENDDOMAIN}
\* How many of the first j runs are such runs.
Rank(j) == Cardinality({i \in 1..j : Forwards(handlers[i])})
\* The send due from a command event.
ExpectedSend(ev) ==
  IF ev.event_type = SENDDOMAIN
  THEN [op |-> "send_websocket_command",
        args |-> <<Passed(ev.data.uuid), Passed(ev.data.value)>>]
  ELSE [op |-> "send_secured__websocket_command",
        args |-> <<Passed(ev.data.uuid), Passed(ev.data.value), Passed(ev.data.code)>>]

\* C15: whichever runs of the handler are suspended and in whatever order
\* they resume, the sends made on the transport are the sends due from the
\* command events, one per event and in the order the bus delivered the
\* events; commands for the same device id are neither merged nor dropped.
C15_SendsFollowDeliveryOrder ==
  /\ Len(sent) = Rank(Len(handlers))
  /\ \A j \in 1..Len(handlers) :
       Forwards(handlers[j]) => sent[Rank(j)] = ExpectedSend(handlers[j].ev)

C15_Witness ==
  /\ Len(handlers) = 2
  /\ handlers[1].ev = [event_type |-> SENDDOMAIN, isdict |-> TRUE,
                       data |-> [uuid |-> "abc", value |-> "on", code |-> Absent]]
  /\ handlers[2].ev = handlers[1].ev
  /\ handlers[1].pc = "send"
  /\ handlers[2].pc = "done"
  /\ sent = <<[op |-> "send_websocket_command", args |-> <<"abc", "on">>],
              [op |-> "send_websocket_command", args |-> <<"abc", "on">>]>>

\* A run whose event was dropped: its payload is not a dict, so that
\* nothing can be extracted, or the send it made failed on the value with
\* ValueError.
Dropped(h) == h.pc = "done" /\ (~h.ev.isdict \/ h.out = "ValueError")

\* C16: no exception leaves a run of the handler, whether the payload is
\* not a dict or the send raises ValueError; an event whose payload is not
\* a dict causes no send; and a command event delivered after a dropped
\* one is forwarded as any other.
C16_MalformedDroppedBridgeContinues ==
  \A j \in 1..Len(handlers) :
    /\ handlers[j].exc = ""
    /\ handlers[j].pc = "done" => last.op = "listen_loxone_send" /\ last.exc = ""
    /\ ~handlers[j].ev.isdict =>
         /\ handlers[j].pc = "done"
         /\ Rank(j) = Rank(j - 1)
    /\ \A i \in 1..(j - 1) :
         (Dropped(handlers[i]) /\ Forwards(handlers[j])) =>
           /\ Rank(j) <= Len(sent)
           /\ sent[Rank(j)] = ExpectedSend(handlers[j].ev)

C16_Witness ==
  /\ Len(handlers) = 2
  /\ handlers[1].pc = "done"
  /\ handlers[1].out = "ValueError"
  /\ handlers[1].exc = ""
  /\ handlers[2].ev = [event_type |-> SECUREDSENDDOMAIN, isdict |-> TRUE,
                       data |-> [uuid |-> "abc", value |-> "on", code |-> "1234"]]
  /\ handlers[2].pc = "done"
  /\ sent[2] = [op |-> "send_secured__websocket_command", args |-> <<"abc", "on", "1234">>]

\* A step in which async_setup is called.
SetupCalled == setupPc = "idle" /\ setupPc' = "getJson"
\* A step in which the fetch of the running async_setup ends.
FetchEnds == setupPc = "getJson" /\ setupPc' # "getJson"
\* A step in which async_setup returns.
SetupReturns == setupPc # "idle" /\ setupPc' = "idle"

\* C17: whatever the session holds from earlier calls, a call of
\* async_setup starts from a new LoxApp and a fetch; a fetch that ends with
\* status 200 / "200" makes self.api a transport that did not exist before,
\* constructed from the document just fetched, and awaits its async_init,
\* leaving the earlier transports as they are; and the call returns True
\* exactly when that status and the result of that async_init allow it.
C17_SetupStartsAfresh ==
  [][
    /\ SetupCalled =>
         /\ lox_config' = [t |-> "LoxApp", json |-> JsonNone]
         /\ setupLog' = <<"getJson">>
         /\ request_code' = PyMissing
    /\ (FetchEnds /\ request_code' \in {PyInt(200), PyStr(<<"2", "0", "0">>)}) =>
         /\ setupPc' = "async_init"
         /\ api' # NoApi
         /\ api' # api
         /\ transports[api'].state = "none"
         /\ transports'[api'].state = "constructed"
         /\ transports'[api'].loxconfig = lox_config'.json
         /\ \A t \in TransportIds : t # api' => transports'[t] = transports[t]
    /\ SetupReturns =>
         /\ last'.op = "async_setup"
         /\ last'.log[1] = "getJson"
         /\ (last'.ret = PyBool(TRUE)) <=>
              /\ setupPc = "async_init"
              /\ last'.log = <<"getJson", "LoxWs", "async_init">>
              /\ last'.request_code \in {PyInt(200), PyStr(<<"2", "0", "0">>)}
              /\ last'.res \in {PyBool(TRUE), PyInt(1)}
         /\ (setupPc = "async_init") => transports'[api'].state # "constructed"
  ]_vars

\* A second async_setup has succeeded after a first whose async_init failed.
C17_Witness ==
  /\ setupPc = "idle"
  /\ last.op = "async_setup"
  /\ last.ret = PyBool(TRUE)
  /\ api = 2
  /\ transports[1].state = "init_failed"
  /\ transports[2].state = "initialized"

\* C18: whenever no async_setup is in flight and the session holds a
\* transport, that transport was constructed from the document the session
\* holds: self.api's loxconfig is self.lox_config.json.
C18_TransportBuiltFromCurrentDocument ==
  (setupPc = "idle" /\ api # NoApi) =>
    /\ lox_config.t = "LoxApp"
    /\ transports[api].loxconfig = lox_config.json

\* C19: once an async_setup has returned True with a transport installed in
\* place of one that had a callback registered, the new transport has a
\* callback to hand its inbound messages to.
C19_CallbackSurvivesReconnect ==
  (/\ setupPc = "idle"
   /\ last.op = "async_setup"
   /\ last.ret = PyBool(TRUE)
   /\ api # NoApi
   /\ \E t \in 1..(api - 1) : transports[t].message_call_back # "None")
  => transports[api].message_call_back # "None"

\* C20: a transport that has been started and not stopped since is the
\* transport self.api refers to.
C20_AtMostOneLiveTransport ==
  \A t \in TransportIds : transports[t].running => t = api

====
